---- MODULE Spec2Model ----
(***************************************************************************)
(* A model of the bit queue of src/bit_queue.c: the bit transfer primitive *)
(* bit_queue_bit_buffer_copy, the two constructors, bit_queue_write_bits,  *)
(* bit_queue_read_bits and bit_queue_destroy.  Buffers are functions from  *)
(* byte index to byte value; the cursors keep the widths of the struct.    *)
(***************************************************************************)
EXTENDS Integers, Naturals, Sequences, FiniteSets, TLC

(***************************************************************************)
(* Bounds of the model.                                                    *)
(***************************************************************************)
\* queues of 1..MaxBytes bytes
MaxBytes == 2
\* read_bits / write_bits calls made on one queue
MaxCalls == 4
\* one wide queue, large enough for a single transfer of 256 bits or more
WideBytes == 33
\* bit_queue_destroy calls made on one handle
MaxDestroys == 2
\* direct calls of the transfer primitive: bit counts 1..MaxBits on buffers of
\* CopyBytes bytes
MaxBits == 16
CopyBytes == 3

(***************************************************************************)
(* Program constants.                                                      *)
(***************************************************************************)
BITS_IN_BYTE == 8
BYTE_MASK == 255
\* uint8_t cursor fields wrap at 2^8
UINT8_MOD == 256
\* size_t arithmetic wraps; TLC's integers are 32 bits wide, so the modulus
\* of size_t is represented by a power of two above every size of the model
SIZE_MOD == 2^28

\* the null buffer pointer: a function no buffer 0..n-1 -> byte is equal to
NULL == [i \in {-1} |-> 0]
EINVAL == "EINVAL"
EMSGSIZE == "EMSGSIZE"
EAGAIN == "EAGAIN"
ENOMEM == "ENOMEM"
\* the value of "errno set by this call" when the call sets none
NOERR == "none"

(***************************************************************************)
(* Bit arithmetic on naturals.                                             *)
(***************************************************************************)
Pow2(k) == 2^k

RECURSIVE BitAnd(_, _)
BitAnd(a, b) ==
    IF a = 0 \/ b = 0 THEN 0
    ELSE (a % 2) * (b % 2) + 2 * BitAnd(a \div 2, b \div 2)

RECURSIVE BitOr(_, _)
BitOr(a, b) ==
    IF a = 0 THEN b
    ELSE IF b = 0 THEN a
    ELSE (IF (a % 2) + (b % 2) > 0 THEN 1 ELSE 0) + 2 * BitOr(a \div 2, b \div 2)

\* a << k and a >> k on int
Shl(a, k) == a * Pow2(k)
Shr(a, k) == a \div Pow2(k)

\* unsigned subtraction on size_t
USub(a, b) == (a - b + SIZE_MOD) % SIZE_MOD

CREATE_BYTE_MASK(bit_offset) == BitAnd(Shl(BYTE_MASK, bit_offset), BYTE_MASK)

CREATE_BYTE_MASK_LSB(bit_offset) == Shr(CREATE_BYTE_MASK(bit_offset), bit_offset)

(***************************************************************************)
(* Buffers: a buffer of n bytes is a function 0..n-1 -> 0..255.            *)
(***************************************************************************)
ZeroBuffer(n) == [i \in 0..(n - 1) |-> 0]

\* logical bit k of a buffer: bit (k % 8) of byte (k \div 8), LSB = 0
BitAt(buf, k) == Shr(buf[k \div BITS_IN_BYTE], k % BITS_IN_BYTE) % 2

\* the logical bits [from, from + n) of a buffer, as a sequence
BitsOf(buf, from, n) == [k \in 1..n |-> BitAt(buf, from + k - 1)]

\* the value of the low n bits of a buffer read as a little-endian integer
RECURSIVE ValueOf(_, _)
ValueOf(buf, n) ==
    IF n = 0 THEN 0 ELSE ValueOf(buf, n - 1) + BitAt(buf, n - 1) * Pow2(n - 1)

(***************************************************************************)
(* bit_queue_bit_buffer_copy.  The result is a record: ret is the return   *)
(* value, err the errno the call sets, dst the destination afterwards,     *)
(* moves the number of passes of the inner loop, idle whether a pass moved  *)
(* no bit, oob_read / oob_write whether a byte outside the source /         *)
(* destination was accessed.  stray is the value an access outside the      *)
(* source yields.                                                           *)
(***************************************************************************)
\* the byte the loop reads at src_byte_offset
SrcByte(src_buff, src_byte_offset, stray) ==
    IF src_byte_offset \in DOMAIN src_buff THEN src_buff[src_byte_offset] ELSE stray

\* the first test looks at the destination byte only
OffsetBitCount_dst_only(dst_bit_offset, src_bit_offset, r_bits) ==
    IF r_bits + dst_bit_offset <= BITS_IN_BYTE
    THEN BITS_IN_BYTE - r_bits
    ELSE IF dst_bit_offset >= src_bit_offset THEN dst_bit_offset
    ELSE src_bit_offset

\* lines 341-356: the choice of offset_bit_count
OffsetBitCount(dst_bit_offset, src_bit_offset, r_bits) ==
    IF r_bits + dst_bit_offset <= BITS_IN_BYTE /\ r_bits <= BITS_IN_BYTE - src_bit_offset
    THEN BITS_IN_BYTE - r_bits
    ELSE IF dst_bit_offset >= src_bit_offset THEN dst_bit_offset
    ELSE src_bit_offset

\* the masked source bits are not shifted down to bit 0 before they are placed
MergeByte_no_shift(dst_byte, src_byte, dst_bit_offset, src_bit_offset, offset_bit_count) ==
    BitOr(dst_byte,
          Shl(BitAnd(src_byte,
                     Shl(CREATE_BYTE_MASK_LSB(offset_bit_count), src_bit_offset)),
              dst_bit_offset)) % UINT8_MOD

\* line 359: the byte stored into dst_buff[dst_byte_offset]
MergeByte(dst_byte, src_byte, dst_bit_offset, src_bit_offset, offset_bit_count) ==
    BitOr(dst_byte,
          Shl(Shr(BitAnd(src_byte,
                         Shl(CREATE_BYTE_MASK_LSB(offset_bit_count), src_bit_offset)),
                  src_bit_offset),
              dst_bit_offset)) % UINT8_MOD

\* lines 341-376: one pass of the do/while loop, on the loop's variables
CopyPass(st, src_buff, stray) ==
    LET offset_bit_count == OffsetBitCount(st.dst_bit_offset, st.src_bit_offset, st.r_bits)
        moved == BITS_IN_BYTE - offset_bit_count
        in_dst == st.dst_byte_offset \in DOMAIN st.dst
        in_src == st.src_byte_offset \in DOMAIN src_buff
        sb1 == st.src_bit_offset + moved
        db1 == st.dst_bit_offset + moved
    IN  [dst |-> IF in_dst
                 THEN [st.dst EXCEPT ![st.dst_byte_offset] =
                          MergeByte(st.dst[st.dst_byte_offset],
                                    SrcByte(src_buff, st.src_byte_offset, stray),
                                    st.dst_bit_offset, st.src_bit_offset,
                                    offset_bit_count)]
                 ELSE st.dst,
         dst_byte_offset |-> IF db1 = BITS_IN_BYTE THEN st.dst_byte_offset + 1
                             ELSE st.dst_byte_offset,
         dst_bit_offset |-> IF db1 = BITS_IN_BYTE THEN 0 ELSE db1,
         src_byte_offset |-> IF sb1 = BITS_IN_BYTE THEN st.src_byte_offset + 1
                             ELSE st.src_byte_offset,
         src_bit_offset |-> IF sb1 = BITS_IN_BYTE THEN 0 ELSE sb1,
         r_bits |-> st.r_bits - moved,
         moves |-> st.moves + 1,
         idle |-> st.idle \/ moved = 0,
         oob_read |-> st.oob_read \/ ~in_src,
         oob_write |-> st.oob_write \/ ~in_dst]

\* lines 339-377: the do/while loop, from the state after a pass
RECURSIVE CopyLoop(_, _, _)
CopyLoop(st, src_buff, stray) ==
    IF st.r_bits > 0 THEN CopyLoop(CopyPass(st, src_buff, stray), src_buff, stray)
    ELSE st

\* lines 332-336: the clipping of bit_count to what the source can supply
ClippedCount(src_byte_offset, src_bit_offset, src_buff_size, bit_count) ==
    LET avail == USub(USub(src_buff_size, src_byte_offset) * BITS_IN_BYTE, src_bit_offset)
    IN  IF bit_count > avail THEN avail ELSE bit_count

\* lines 337-338: the loop's variables before its first pass
CopyStart(dst_buff, dst_byte_offset, dst_bit_offset, src_byte_offset, src_bit_offset, n) ==
    [dst |-> dst_buff,
     dst_byte_offset |-> dst_byte_offset, dst_bit_offset |-> dst_bit_offset,
     src_byte_offset |-> src_byte_offset, src_bit_offset |-> src_bit_offset,
     r_bits |-> n, moves |-> 0, idle |-> FALSE,
     oob_read |-> FALSE, oob_write |-> FALSE]

\* lines 378-381: the result of a copy of n bits that ended in the state out
Copied(n, out) ==
    [ret |-> n, err |-> NOERR, dst |-> out.dst, moves |-> out.moves,
     idle |-> out.idle, oob_read |-> out.oob_read, oob_write |-> out.oob_write]

\* lines 314-329: the result of a call an argument check rejects
Refused(dst_buff, e) ==
    [ret |-> -1, err |-> e, dst |-> dst_buff, moves |-> 0,
     idle |-> FALSE, oob_read |-> FALSE, oob_write |-> FALSE]

bit_queue_bit_buffer_copy(dst_buff, src_buff, dst_byte_offset, dst_bit_offset, dst_buff_size, src_byte_offset, src_bit_offset, src_buff_size, bit_count, stray) ==
    IF dst_buff = NULL \/ src_buff = NULL THEN Refused(dst_buff, EINVAL)
    ELSE IF \/ bit_count = 0
            \/ dst_buff_size < dst_byte_offset
            \/ src_buff_size < src_byte_offset
            \/ dst_bit_offset >= BITS_IN_BYTE
            \/ src_bit_offset >= BITS_IN_BYTE
            \/ src_buff_size * BITS_IN_BYTE < bit_count
    THEN Refused(dst_buff, EINVAL)
    ELSE IF USub(USub(dst_buff_size, dst_byte_offset) * BITS_IN_BYTE, dst_bit_offset)
                < bit_count
    THEN Refused(dst_buff, EMSGSIZE)
    ELSE Copied(ClippedCount(src_byte_offset, src_bit_offset, src_buff_size, bit_count),
                CopyLoop(CopyPass(CopyStart(dst_buff, dst_byte_offset, dst_bit_offset,
                                            src_byte_offset, src_bit_offset,
                                            ClippedCount(src_byte_offset, src_bit_offset,
                                                         src_buff_size, bit_count)),
                                  src_buff, stray),
                         src_buff, stray))

(***************************************************************************)
(* The queue.  bq is the state of the handle the caller holds: "NULL"      *)
(* before a constructor has succeeded, "live" afterwards, "freed" once     *)
(* bit_queue_destroy has released it.  The other variables up to free_buff *)
(* are the fields of struct _bit_queue_t.  pending holds the bits written  *)
(* and not yet read, oldest first; call describes the last call made;       *)
(* calls counts the read_bits / write_bits calls on the queue; origin is    *)
(* the constructor that made it; wrote tells whether a write has stored     *)
(* bits in it.  freed_struct and freed_buffer count the calls of free on    *)
(* the struct and on what the struct names as its buffer; stale tells       *)
(* whether a call has read the struct after it was released; destroys       *)
(* counts the bit_queue_destroy calls on the handle.  copy holds the        *)
(* arguments and the result of a direct call of the transfer primitive.     *)
(***************************************************************************)
VARIABLES bq, buffer, r_bit_offset, r_byte_offset, w_bit_offset, w_byte_offset,
          written_bits, buffer_size, free_buff, pending, call, calls, origin, wrote,
          freed_struct, freed_buffer, stale, destroys, copy

fields == <<buffer, r_bit_offset, r_byte_offset, w_bit_offset, w_byte_offset,
            written_bits, buffer_size, free_buff>>

vars == <<bq, buffer, r_bit_offset, r_byte_offset, w_bit_offset, w_byte_offset,
          written_bits, buffer_size, free_buff, pending, call, calls, origin, wrote,
          freed_struct, freed_buffer, stale, destroys, copy>>

\* what only bit_queue_destroy changes
heap == <<freed_struct, freed_buffer, stale, destroys>>

\* what only a constructor sets
made == <<origin, wrote>>

\* the struct as one value, for the loops of read_bits and write_bits
Queue == [buffer |-> buffer, r_bit_offset |-> r_bit_offset,
          r_byte_offset |-> r_byte_offset, w_bit_offset |-> w_bit_offset,
          w_byte_offset |-> w_byte_offset, written_bits |-> written_bits,
          buffer_size |-> buffer_size]

(***************************************************************************)
(* Inputs of the calls.                                                    *)
(***************************************************************************)
\* byte counts handed to the constructors
ByteCounts == (0..MaxBytes) \cup {WideBytes}

\* the bytes a caller buffer is filled with, repeated over its length
Patterns == {<<170>>, <<53, 202, 15>>}

CallerBuffer(size, pat) == [i \in 0..(size - 1) |-> pat[(i % Len(pat)) + 1]]

\* bit counts of a read or write: none, unaligned and aligned chunks, the
\* whole capacity and one bit more; for the wide queue the counts around a
\* transfer of 256 bits
BitCounts ==
    IF buffer_size <= MaxBytes
    THEN {0, 1, 5, 8, 12, buffer_size * BITS_IN_BYTE, buffer_size * BITS_IN_BYTE + 1}
    ELSE {BITS_IN_BYTE, UINT8_MOD, buffer_size * BITS_IN_BYTE,
          (buffer_size + 1) * BITS_IN_BYTE}

\* bytes needed to hold n bits
BytesFor(n) == (n + BITS_IN_BYTE - 1) \div BITS_IN_BYTE

\* the arguments of a write: a source of just the bytes the bits need, a
\* null source, a source too short for the count
WriteArgs ==
    {[src |-> CallerBuffer(BytesFor(n), pat), size |-> BytesFor(n), bit_count |-> n] :
        n \in BitCounts, pat \in Patterns}
    \cup {[src |-> NULL, size |-> 1, bit_count |-> BITS_IN_BYTE],
          [src |-> CallerBuffer(1, <<255>>), size |-> 1, bit_count |-> BITS_IN_BYTE + 1]}

\* the arguments of a read: a zeroed destination of just the bytes the bits
\* need, one of two bytes for a few bits (as src/test.c reads), a null
\* destination, a destination too short
ReadArgs ==
    {[null |-> FALSE, size |-> BytesFor(n), bit_count |-> n] : n \in BitCounts}
    \cup {[null |-> FALSE, size |-> 2, bit_count |-> n] : n \in {1, 5} \cap BitCounts}
    \cup {[null |-> TRUE, size |-> 1, bit_count |-> BITS_IN_BYTE],
          [null |-> FALSE, size |-> 1, bit_count |-> BITS_IN_BYTE + 1]}

\* values a read outside a buffer may yield
StrayBytes == {0, 255}

\* the queue's own calls of the primitive stay inside both buffers (NoStrayAccess
\* below), so the value is never used there
Unused == CHOOSE b \in StrayBytes : TRUE

NoCall == [op |-> "none", bit_count |-> 0, size |-> 0, null |-> FALSE, ret |-> 0,
           err |-> NOERR, out |-> NULL, iters |-> 0, wrap_bit |-> -1, oob |-> FALSE,
           hang |-> FALSE, free |-> FALSE]

\* no direct call of the transfer primitive has been set up
NoCopy == [done |-> FALSE]

\* no queue has been constructed
NoQueue ==
    /\ bq = "NULL"
    /\ buffer = NULL
    /\ r_bit_offset = 0
    /\ r_byte_offset = 0
    /\ w_bit_offset = 0
    /\ w_byte_offset = 0
    /\ written_bits = 0
    /\ buffer_size = 0
    /\ free_buff = FALSE
    /\ pending = <<>>
    /\ call = NoCall
    /\ calls = 0
    /\ origin = "none"
    /\ wrote = FALSE
    /\ freed_struct = 0
    /\ freed_buffer = 0
    /\ stale = FALSE
    /\ destroys = 0

Init == NoQueue /\ copy = NoCopy

(***************************************************************************)
(* bit_queue_base_init(byte_count).  alloc1 and alloc2 tell whether the    *)
(* two calloc calls succeed.                                               *)
(***************************************************************************)
bit_queue_base_init(byte_count, alloc1, alloc2) ==
    /\ bq = "NULL"
    /\ IF byte_count = 0
       THEN /\ call' = [NoCall EXCEPT !.op = "base_init", !.size = byte_count,
                                      !.ret = -1, !.err = EINVAL]
            /\ UNCHANGED <<bq, fields, pending, calls, made>>
       ELSE IF ~alloc1 \/ ~alloc2
       THEN /\ call' = [NoCall EXCEPT !.op = "base_init", !.size = byte_count,
                                      !.ret = -1, !.err = ENOMEM]
            /\ UNCHANGED <<bq, fields, pending, calls, made>>
       ELSE /\ bq' = "live"
            /\ buffer' = ZeroBuffer(byte_count)
            /\ buffer_size' = byte_count
            /\ written_bits' = 0
            /\ free_buff' = TRUE
            /\ r_bit_offset' = 0
            /\ r_byte_offset' = 0
            /\ w_bit_offset' = 0
            /\ w_byte_offset' = 0
            /\ pending' = <<>>
            /\ call' = [NoCall EXCEPT !.op = "base_init", !.size = byte_count]
            /\ calls' = 0
            /\ origin' = "base_init"
            /\ wrote' = FALSE

(***************************************************************************)
(* bit_queue_init(buffer, byte_count, free_buff).                          *)
(***************************************************************************)
bit_queue_init(buf, byte_count, free, alloc1) ==
    /\ bq = "NULL"
    /\ IF byte_count = 0 \/ buf = NULL
       THEN /\ call' = [NoCall EXCEPT !.op = "init", !.size = byte_count,
                                      !.null = (buf = NULL),
                                      !.ret = -1, !.err = EINVAL]
            /\ UNCHANGED <<bq, fields, pending, calls, made>>
       ELSE IF ~alloc1
       THEN /\ call' = [NoCall EXCEPT !.op = "init", !.size = byte_count,
                                      !.ret = -1, !.err = ENOMEM]
            /\ UNCHANGED <<bq, fields, pending, calls, made>>
       ELSE /\ bq' = "live"
            /\ buffer' = buf
            /\ buffer_size' = byte_count
            /\ written_bits' = byte_count * BITS_IN_BYTE
            /\ free_buff' = free
            /\ r_bit_offset' = 0
            /\ r_byte_offset' = 0
            /\ w_bit_offset' = 0
            /\ w_byte_offset' = 0
            /\ pending' = BitsOf(buf, 0, byte_count * BITS_IN_BYTE)
            /\ call' = [NoCall EXCEPT !.op = "init", !.size = byte_count, !.free = free]
            /\ calls' = 0
            /\ origin' = "init"
            /\ wrote' = FALSE

(***************************************************************************)
(* bit_queue_has_space and bit_queue_has_data, on a non-null queue.        *)
(***************************************************************************)
bit_queue_has_space(q, bit_count) ==
    USub(q.buffer_size * BITS_IN_BYTE, q.written_bits) >= bit_count

\* a comparison that is off by one
bit_queue_has_data_strict(q, bit_count) ==
    q.written_bits > bit_count

bit_queue_has_data(q, bit_count) ==
    q.written_bits >= bit_count

(***************************************************************************)
(* The advance of a (byte, bit) cursor by ret_val bits as both loops do    *)
(* it: the bit offset is a uint8_t, the sum is stored in it before the     *)
(* carry is taken.                                                         *)
(***************************************************************************)
AdvanceCursor(byte_offset, bit_offset, ret_val) ==
    LET sum == (bit_offset + ret_val) % UINT8_MOD
    IN  [byte |-> byte_offset + (sum \div BITS_IN_BYTE), bit |-> sum % BITS_IN_BYTE]

\* a wrap that tests for a byte offset past the end instead of at the end
WriteWrap_past_end(cur, size) ==
    IF cur.byte > size THEN [byte |-> 0, bit |-> cur.bit] ELSE cur

\* lines 266-271: the wrap of the write cursor
WriteWrap(cur, size) ==
    IF cur.byte = size THEN [byte |-> 0, bit |-> cur.bit] ELSE cur

\* a read cursor that is never taken back to the start
ReadWrap_never(cur, size) == cur

\* lines 201-206: the wrap of the read cursor
ReadWrap(cur, size) ==
    IF cur.byte = size THEN [byte |-> 0, bit |-> 0] ELSE cur

(***************************************************************************)
(* Lines 250-274: the do/while loop of bit_queue_write_bits.  WriteLoop is *)
(* the call of the primitive at the top of a pass, WritePass the rest of   *)
(* the pass, given the primitive's result c.  The result holds the queue   *)
(* afterwards, the last return value of the primitive and what the loop    *)
(* did.                                                                    *)
(***************************************************************************)
RECURSIVE WriteLoop(_, _, _, _, _, _, _, _)

\* a pass that applies the primitive's return value before it tests it
WritePass_commit_first(q, src, src_size, b_byte_offset, b_bit_offset, r_bits, stray, acc, c) ==
    LET b == AdvanceCursor(b_byte_offset, b_bit_offset, c.ret)
        w0 == AdvanceCursor(q.w_byte_offset, q.w_bit_offset, c.ret)
        w == WriteWrap(w0, q.buffer_size)
        q1 == [q EXCEPT !.buffer = c.dst,
                        !.w_byte_offset = w.byte,
                        !.w_bit_offset = w.bit,
                        !.written_bits = q.written_bits + c.ret]
        acc1 == [iters |-> acc.iters + 1,
                 wrap_bit |-> IF w0.byte = q.buffer_size THEN w0.bit ELSE acc.wrap_bit,
                 oob |-> acc.oob \/ c.oob_read \/ c.oob_write,
                 hang |-> c.ret = 0 \/ c.idle]
    IN  IF c.ret = -1
        THEN [q |-> q1, ret |-> -1, err |-> c.err, acc |-> acc1]
        ELSE IF c.ret = 0
        THEN [q |-> q1, ret |-> 0, err |-> NOERR, acc |-> acc1]
        ELSE IF r_bits - c.ret > 0
        THEN WriteLoop(q1, src, src_size, b.byte, b.bit, r_bits - c.ret, stray, acc1)
        ELSE [q |-> q1, ret |-> c.ret, err |-> NOERR, acc |-> acc1]

WritePass(q, src, src_size, b_byte_offset, b_bit_offset, r_bits, stray, acc, c) ==
    LET b == AdvanceCursor(b_byte_offset, b_bit_offset, c.ret)
        w0 == AdvanceCursor(q.w_byte_offset, q.w_bit_offset, c.ret)
        w == WriteWrap(w0, q.buffer_size)
        q1 == [q EXCEPT !.buffer = c.dst,
                        !.w_byte_offset = w.byte,
                        !.w_bit_offset = w.bit,
                        !.written_bits = q.written_bits + c.ret]
        acc1 == [iters |-> acc.iters + 1,
                 wrap_bit |-> IF w0.byte = q.buffer_size THEN w0.bit ELSE acc.wrap_bit,
                 oob |-> acc.oob \/ c.oob_read \/ c.oob_write,
                 hang |-> c.ret = 0 \/ c.idle]
    IN  IF c.ret = -1
        THEN [q |-> q, ret |-> -1, err |-> c.err, acc |-> [acc EXCEPT !.iters = @ + 1]]
        ELSE IF c.ret = 0
        THEN [q |-> q1, ret |-> 0, err |-> NOERR, acc |-> acc1]
        ELSE IF r_bits - c.ret > 0
        THEN WriteLoop(q1, src, src_size, b.byte, b.bit, r_bits - c.ret, stray, acc1)
        ELSE [q |-> q1, ret |-> c.ret, err |-> NOERR, acc |-> acc1]

WriteLoop(q, src, src_size, b_byte_offset, b_bit_offset, r_bits, stray, acc) ==
    WritePass(q, src, src_size, b_byte_offset, b_bit_offset, r_bits, stray, acc,
              bit_queue_bit_buffer_copy(q.buffer, src, q.w_byte_offset, q.w_bit_offset,
                                        q.buffer_size, b_byte_offset, b_bit_offset,
                                        src_size, r_bits, stray))

(***************************************************************************)
(* Lines 185-209: the do/while loop of bit_queue_read_bits, in the same    *)
(* two parts.  dst is the caller's buffer.                                 *)
(***************************************************************************)
RECURSIVE ReadLoop(_, _, _, _, _, _, _, _)

ReadPass(q, dst_size, b_byte_offset, b_bit_offset, r_bits, stray, acc, c) ==
    LET b == AdvanceCursor(b_byte_offset, b_bit_offset, c.ret)
        r0 == AdvanceCursor(q.r_byte_offset, q.r_bit_offset, c.ret)
        r == ReadWrap(r0, q.buffer_size)
        q1 == [q EXCEPT !.r_byte_offset = r.byte,
                        !.r_bit_offset = r.bit,
                        !.written_bits = q.written_bits - c.ret]
        acc1 == [iters |-> acc.iters + 1,
                 wrap_bit |-> IF r0.byte = q.buffer_size THEN r0.bit ELSE acc.wrap_bit,
                 oob |-> acc.oob \/ c.oob_read \/ c.oob_write,
                 hang |-> c.ret = 0 \/ c.idle]
    IN  IF c.ret = -1
        THEN [q |-> q, dst |-> c.dst, ret |-> -1, err |-> c.err,
              acc |-> [acc EXCEPT !.iters = @ + 1]]
        ELSE IF c.ret = 0
        THEN [q |-> q1, dst |-> c.dst, ret |-> 0, err |-> NOERR, acc |-> acc1]
        ELSE IF r_bits - c.ret > 0
        THEN ReadLoop(q1, c.dst, dst_size, b.byte, b.bit, r_bits - c.ret, stray, acc1)
        ELSE [q |-> q1, dst |-> c.dst, ret |-> c.ret, err |-> NOERR, acc |-> acc1]

ReadLoop(q, dst, dst_size, b_byte_offset, b_bit_offset, r_bits, stray, acc) ==
    ReadPass(q, dst_size, b_byte_offset, b_bit_offset, r_bits, stray, acc,
             bit_queue_bit_buffer_copy(dst, q.buffer, b_byte_offset, b_bit_offset,
                                       dst_size, q.r_byte_offset, q.r_bit_offset,
                                       q.buffer_size, r_bits, stray))

NoAcc == [iters |-> 0, wrap_bit |-> -1, oob |-> FALSE, hang |-> FALSE]

\* the fields of the struct after a loop
SetFields(q) ==
    /\ buffer' = q.buffer
    /\ r_bit_offset' = q.r_bit_offset
    /\ r_byte_offset' = q.r_byte_offset
    /\ w_bit_offset' = q.w_bit_offset
    /\ w_byte_offset' = q.w_byte_offset
    /\ written_bits' = q.written_bits
    /\ UNCHANGED <<buffer_size, free_buff>>

\* a capacity test that lets a request of one byte more through
TooLarge_slack(q, bit_count) == bit_count > (q.buffer_size + 1) * BITS_IN_BYTE

\* lines 170 and 235: the request can never fit
TooLarge(q, bit_count) == bit_count > q.buffer_size * BITS_IN_BYTE

\* a rejection that also discards what the queue holds
Reject_discard(op, size, bit_count, null, e) ==
    /\ call' = [NoCall EXCEPT !.op = op, !.size = size, !.bit_count = bit_count,
                              !.null = null, !.ret = -1, !.err = e]
    /\ written_bits' = 0
    /\ UNCHANGED <<bq, buffer, r_bit_offset, r_byte_offset, w_bit_offset,
                   w_byte_offset, buffer_size, free_buff, pending, wrote>>

\* lines 159-179 and 224-244: a branch that sets errno and returns -1
Reject(op, size, bit_count, null, e) ==
    /\ call' = [NoCall EXCEPT !.op = op, !.size = size, !.bit_count = bit_count,
                              !.null = null, !.ret = -1, !.err = e]
    /\ UNCHANGED <<bq, fields, pending, wrote>>

\* lines 275-280: the state and the return value after the loop l of a write
WriteDone(src, src_size, bit_count, l) ==
    /\ SetFields(l.q)
    /\ pending' = pending \o BitsOf(src, 0, l.q.written_bits - written_bits)
    /\ wrote' = (wrote \/ l.q.written_bits > written_bits)
    /\ call' = [op |-> "write", bit_count |-> bit_count, size |-> src_size,
                null |-> FALSE,
                ret |-> IF l.ret = -1 THEN -1 ELSE bit_count,
                err |-> l.err, out |-> NULL, iters |-> l.acc.iters,
                wrap_bit |-> l.acc.wrap_bit, oob |-> l.acc.oob,
                hang |-> l.acc.hang, free |-> FALSE]
    /\ UNCHANGED bq

\* lines 210-215: the state and the return value after the loop l of a read
ReadDone(dst_size, bit_count, l) ==
    /\ SetFields(l.q)
    /\ pending' = SubSeq(pending, written_bits - l.q.written_bits + 1, Len(pending))
    /\ wrote' = wrote
    /\ call' = [op |-> "read", bit_count |-> bit_count, size |-> dst_size,
                null |-> FALSE,
                ret |-> IF l.ret = -1 THEN -1 ELSE bit_count,
                err |-> l.err, out |-> l.dst, iters |-> l.acc.iters,
                wrap_bit |-> l.acc.wrap_bit, oob |-> l.acc.oob,
                hang |-> l.acc.hang, free |-> FALSE]
    /\ UNCHANGED bq

(***************************************************************************)
(* bit_queue_write_bits(bq, buffer, buffer_size, bit_count): src is the    *)
(* caller's buffer (NULL or src_size bytes).                               *)
(***************************************************************************)
bit_queue_write_bits(src, src_size, bit_count, stray) ==
    /\ bq \in {"NULL", "live"}
    /\ IF bq = "NULL" \/ src = NULL \/ bit_count = 0
          \/ src_size * BITS_IN_BYTE < bit_count
       THEN Reject("write", src_size, bit_count, src = NULL, EINVAL)
       ELSE IF buffer = NULL
       THEN Reject("write", src_size, bit_count, FALSE, EINVAL)
       ELSE IF TooLarge(Queue, bit_count)
       THEN Reject("write", src_size, bit_count, FALSE, EMSGSIZE)
       ELSE IF ~bit_queue_has_space(Queue, bit_count)
       THEN Reject("write", src_size, bit_count, FALSE, EAGAIN)
       ELSE WriteDone(src, src_size, bit_count,
                      WriteLoop(Queue, src, src_size, 0, 0, bit_count, stray, NoAcc))

(***************************************************************************)
(* bit_queue_read_bits(bq, buffer, buffer_size, bit_count): the caller's   *)
(* buffer is NULL (dst_null) or dst_size zeroed bytes.                     *)
(***************************************************************************)
bit_queue_read_bits(dst_null, dst_size, bit_count, stray) ==
    /\ bq \in {"NULL", "live"}
    /\ IF bq = "NULL" \/ dst_null \/ bit_count = 0
          \/ dst_size * BITS_IN_BYTE < bit_count
       THEN Reject("read", dst_size, bit_count, dst_null, EINVAL)
       ELSE IF buffer = NULL
       THEN Reject("read", dst_size, bit_count, FALSE, EINVAL)
       ELSE IF TooLarge(Queue, bit_count)
       THEN Reject("read", dst_size, bit_count, FALSE, EMSGSIZE)
       ELSE IF ~bit_queue_has_data(Queue, bit_count)
       THEN Reject("read", dst_size, bit_count, FALSE, EAGAIN)
       ELSE ReadDone(dst_size, bit_count,
                     ReadLoop(Queue, ZeroBuffer(dst_size), dst_size, 0, 0, bit_count,
                              stray, NoAcc))

(***************************************************************************)
(* bit_queue_destroy(bq) on a handle that was never valid, is live, or was *)
(* released by an earlier bit_queue_destroy.  In the last case lines 290   *)
(* and 296 read released storage: stale_null tells whether bq->buffer      *)
(* reads as NULL there, stale_free whether bq->free_buff reads as true.    *)
(***************************************************************************)
\* a destroy that releases the buffer whoever owns it
ReleasedBuffers_always(free) == 1

\* lines 296-299: the number of calls of free on the buffer
ReleasedBuffers(free) == IF free THEN 1 ELSE 0

\* lines 286-293: errno = EINVAL, nothing released
DestroyRefused ==
    /\ call' = [NoCall EXCEPT !.op = "destroy", !.ret = -1, !.err = EINVAL]
    /\ UNCHANGED <<bq, fields, pending, calls, made, freed_struct, freed_buffer>>

\* lines 294-303: the buffer released if free says so, the struct released
DestroyReleased(free) ==
    /\ bq' = "freed"
    /\ buffer' = NULL
    /\ freed_buffer' = freed_buffer + ReleasedBuffers(free)
    /\ freed_struct' = freed_struct + 1
    /\ call' = [NoCall EXCEPT !.op = "destroy"]
    /\ UNCHANGED <<r_bit_offset, r_byte_offset, w_bit_offset, w_byte_offset,
                   written_bits, buffer_size, free_buff, pending, calls, made>>

bit_queue_destroy(stale_null, stale_free) ==
    IF bq = "NULL"
    THEN DestroyRefused /\ UNCHANGED <<stale, destroys>>
    ELSE /\ destroys < MaxDestroys
         /\ destroys' = destroys + 1
         /\ IF bq = "live"
            THEN /\ IF buffer = NULL THEN DestroyRefused ELSE DestroyReleased(free_buff)
                 /\ UNCHANGED stale
            ELSE /\ stale' = TRUE
                 /\ IF stale_null THEN DestroyRefused ELSE DestroyReleased(stale_free)

BaseInit ==
    /\ \E n \in ByteCounts, a1, a2 \in BOOLEAN : bit_queue_base_init(n, a1, a2)
    /\ UNCHANGED <<heap, copy>>

QInit ==
    /\ \E n \in ByteCounts, pat \in Patterns, null \in BOOLEAN, free, a1 \in BOOLEAN :
          bit_queue_init(IF null THEN NULL ELSE CallerBuffer(n, pat), n, free, a1)
    /\ UNCHANGED <<heap, copy>>

Write ==
    /\ calls < MaxCalls
    /\ \E a \in WriteArgs :
          /\ bit_queue_write_bits(a.src, a.size, a.bit_count, Unused)
          /\ calls' = (IF bq = "live" THEN calls + 1 ELSE calls)
          /\ UNCHANGED <<origin, heap, copy>>

Read ==
    /\ calls < MaxCalls
    /\ \E a \in ReadArgs :
          /\ bit_queue_read_bits(a.null, a.size, a.bit_count, Unused)
          /\ calls' = (IF bq = "live" THEN calls + 1 ELSE calls)
          /\ UNCHANGED <<origin, heap, copy>>

Destroy ==
    /\ \E stale_null, stale_free \in BOOLEAN : bit_queue_destroy(stale_null, stale_free)
    /\ UNCHANGED copy

Next == BaseInit \/ QInit \/ Write \/ Read \/ Destroy

Spec == Init /\ [][Next]_vars

\* the same program with queues of at most MaxBytes bytes only
BaseInitSmall ==
    /\ \E n \in 0..MaxBytes, a1, a2 \in BOOLEAN : bit_queue_base_init(n, a1, a2)
    /\ UNCHANGED <<heap, copy>>

QInitSmall ==
    /\ \E n \in 0..MaxBytes, pat \in Patterns, null \in BOOLEAN, free, a1 \in BOOLEAN :
          bit_queue_init(IF null THEN NULL ELSE CallerBuffer(n, pat), n, free, a1)
    /\ UNCHANGED <<heap, copy>>

NextSmall == BaseInitSmall \/ QInitSmall \/ Write \/ Read \/ Destroy

SmallSpec == Init /\ [][NextSmall]_vars

(***************************************************************************)
(* Direct calls of bit_queue_bit_buffer_copy, one per behaviour: the       *)
(* initial state holds the arguments, CopyCall makes the call.  The starts *)
(* are the first byte, the last byte and the end of either buffer, at      *)
(* every bit offset.                                                       *)
(***************************************************************************)
\* what the destination holds before the call
DstPatterns == {<<0>>, <<204, 51>>}

StartBytes == {0, CopyBytes - 1, CopyBytes}

CopyArgs ==
    [dst : {CallerBuffer(CopyBytes, pat) : pat \in DstPatterns},
     src : {CallerBuffer(CopyBytes, pat) : pat \in Patterns},
     dst_byte_offset : StartBytes,
     dst_bit_offset : 0..(BITS_IN_BYTE - 1),
     dst_buff_size : {CopyBytes},
     src_byte_offset : StartBytes,
     src_bit_offset : 0..(BITS_IN_BYTE - 1),
     src_buff_size : {CopyBytes},
     bit_count : 1..MaxBits,
     stray : StrayBytes]

\* a call every argument check accepts
PlainCopy ==
    [dst |-> ZeroBuffer(CopyBytes), src |-> CallerBuffer(CopyBytes, <<170>>),
     dst_byte_offset |-> 0, dst_bit_offset |-> 0, dst_buff_size |-> CopyBytes,
     src_byte_offset |-> 0, src_bit_offset |-> 0, src_buff_size |-> CopyBytes,
     bit_count |-> BITS_IN_BYTE, stray |-> Unused]

\* calls with one argument that lines 314-323 reject
BadCopyArgs ==
    {[PlainCopy EXCEPT !.dst = NULL],
     [PlainCopy EXCEPT !.src = NULL],
     [PlainCopy EXCEPT !.bit_count = 0],
     [PlainCopy EXCEPT !.dst_byte_offset = CopyBytes + 1],
     [PlainCopy EXCEPT !.src_byte_offset = CopyBytes + 1],
     [PlainCopy EXCEPT !.dst_bit_offset = BITS_IN_BYTE],
     [PlainCopy EXCEPT !.src_bit_offset = BITS_IN_BYTE],
     [PlainCopy EXCEPT !.bit_count = CopyBytes * BITS_IN_BYTE + 1]}

CopyInit ==
    /\ NoQueue
    /\ copy \in {[done |-> FALSE, a |-> a] : a \in CopyArgs \cup BadCopyArgs}

CopyCall ==
    /\ ~copy.done
    /\ copy' = [done |-> TRUE, a |-> copy.a,
                res |-> bit_queue_bit_buffer_copy(
                            copy.a.dst, copy.a.src, copy.a.dst_byte_offset,
                            copy.a.dst_bit_offset, copy.a.dst_buff_size,
                            copy.a.src_byte_offset, copy.a.src_bit_offset,
                            copy.a.src_buff_size, copy.a.bit_count, copy.a.stray)]
    /\ UNCHANGED <<bq, fields, pending, call, calls, made, heap>>

CopySpec == CopyInit /\ [][CopyCall]_vars

(***************************************************************************)
(* Properties.                                                             *)
(***************************************************************************)
\* capacity in bits, and the linear positions of the two cursors
Cap == buffer_size * BITS_IN_BYTE
WPos == w_byte_offset * BITS_IN_BYTE + w_bit_offset
RPos == r_byte_offset * BITS_IN_BYTE + r_bit_offset

\* the queue's own calls of the transfer primitive stay inside both buffers
NoStrayAccess == ~call.oob

\* the step is a write_bits call on a live queue that passes the argument checks
\* and fits the capacity
WriteCall ==
    /\ bq = "live"
    /\ call'.op = "write"
    /\ ~call'.null
    /\ call'.bit_count >= 1
    /\ call'.bit_count <= Cap
    /\ call'.size * BITS_IN_BYTE >= call'.bit_count

\* the same for read_bits
ReadCall ==
    /\ bq = "live"
    /\ call'.op = "read"
    /\ ~call'.null
    /\ call'.bit_count >= 1
    /\ call'.bit_count <= Cap
    /\ call'.size * BITS_IN_BYTE >= call'.bit_count

\* C1: every successful read delivers, bit for bit and in order, the oldest
\* bits that were written (or preloaded) and not yet read.
FifoRoundTrip ==
    [][(ReadCall /\ call'.ret = call'.bit_count)
        => BitsOf(call'.out, 0, call'.bit_count) = SubSeq(pending, 1, call'.bit_count)]_vars

\* C2: a write_bits call with valid arguments returns bit_count if
\* buffer_size*8 - written_bits >= bit_count and fails with EAGAIN otherwise.
HasSpacePredictsWrite ==
    [][WriteCall
        => IF Cap - written_bits >= call'.bit_count
           THEN call'.ret = call'.bit_count /\ call'.err = NOERR
           ELSE call'.ret = -1 /\ call'.err = EAGAIN]_vars

\* C3: a read_bits call with valid arguments returns bit_count if
\* written_bits >= bit_count and fails with EAGAIN otherwise.
HasDataPredictsRead ==
    [][ReadCall
        => IF written_bits >= call'.bit_count
           THEN call'.ret = call'.bit_count /\ call'.err = NOERR
           ELSE call'.ret = -1 /\ call'.err = EAGAIN]_vars

\* a read of exactly the bits the queue held has succeeded
ReadDrainedQueue ==
    /\ bq = "live"
    /\ call.op = "read"
    /\ call.ret = call.bit_count
    /\ written_bits = 0
    /\ wrote

\* C4: written_bits lies in 0..buffer_size*8, is congruent modulo
\* buffer_size*8 to the distance from the read to the write cursor, and is
\* 0 or buffer_size*8 when the cursors coincide.
RingDistance ==
    bq = "live" =>
        /\ written_bits >= 0
        /\ written_bits <= Cap
        /\ (written_bits - (WPos - RPos)) % Cap = 0
        /\ (WPos = RPos => written_bits \in {0, Cap})

\* C5: both cursors stay inside the buffer, and a write that reaches the end
\* of the buffer reaches it with bit offset 0 and leaves the cursor at (0,0).
CursorBounds ==
    bq = "live" =>
        /\ r_byte_offset < buffer_size
        /\ w_byte_offset < buffer_size
        /\ r_bit_offset < BITS_IN_BYTE
        /\ w_bit_offset < BITS_IN_BYTE
        /\ (call.op = "write" /\ call.wrap_bit # -1
              => call.wrap_bit = 0 /\ w_byte_offset = 0 /\ w_bit_offset = 0)

\* a write has filled the buffer up to its last bit and wrapped
WriteReachedEnd ==
    /\ bq = "live"
    /\ call.op = "write"
    /\ call.ret = call.bit_count
    /\ call.wrap_bit = 0
    /\ RPos > 0

\* C6: a write for which free space exists and whose bits extend past the
\* last byte of the buffer succeeds, stores its bits up to the end and on
\* from byte 0 bit 0, and leaves the write cursor at (old + bit_count) mod
\* buffer_size*8.
WriteWrapsAround ==
    [][(WriteCall /\ Cap - written_bits >= call'.bit_count
                  /\ WPos + call'.bit_count > Cap)
        => /\ call'.ret = call'.bit_count
           /\ WPos' = (WPos + call'.bit_count) % Cap
           /\ \A k \in 0..(call'.bit_count - 1) :
                 BitAt(buffer', (WPos + k) % Cap)
                    = pending'[Len(pending') - call'.bit_count + k + 1]]_vars

\* C7: a read_bits or write_bits call that fails with EAGAIN leaves the
\* buffer, both cursors, written_bits, buffer_size and free_buff as they were.
RetryLeavesQueueUntouched ==
    [][(call'.op \in {"read", "write"} /\ call'.err = EAGAIN)
        => UNCHANGED <<bq, fields>>]_vars

\* a write has failed with EAGAIN on a queue that holds data and has room
RetryOnPartlyFilledQueue ==
    /\ bq = "live"
    /\ call.op = "write"
    /\ call.err = EAGAIN
    /\ written_bits > 0
    /\ written_bits < Cap

\* C8: a read_bits or write_bits call on a live queue with a caller buffer
\* that can hold bit_count bits and bit_count > buffer_size*8 fails with
\* EMSGSIZE, whatever the fill level, and leaves the queue unchanged.
OversizedRequestRejected ==
    [][(/\ bq = "live"
        /\ call'.op \in {"read", "write"}
        /\ ~call'.null
        /\ call'.size * BITS_IN_BYTE >= call'.bit_count
        /\ call'.bit_count > Cap)
        => /\ call'.ret = -1
           /\ call'.err = EMSGSIZE
           /\ UNCHANGED <<bq, fields>>]_vars

\* an oversized write has been rejected on a full queue
OversizedWriteOnFullQueue ==
    /\ bq = "live"
    /\ call.op = "write"
    /\ call.err = EMSGSIZE
    /\ call.bit_count > Cap
    /\ written_bits = Cap

\* the queue of the example: made by bit_queue_base_init(2), one write of the
\* 16 bits 0xAA 0xAA, then only successful reads
ExampleQueue ==
    /\ bq = "live"
    /\ origin = "base_init"
    /\ buffer_size = 2
    /\ buffer = CallerBuffer(2, <<170>>)
    /\ WPos = 0
    /\ call.op = "read"
    /\ call.ret = call.bit_count

\* the example after its 5 bit read, and after the 1 bit read that follows
AfterFiveBitRead == ExampleQueue /\ calls = 2 /\ call.bit_count = 5 /\ RPos = 5
AfterOneBitRead == ExampleQueue /\ calls = 3 /\ call.bit_count = 1 /\ RPos = 6

\* the value the caller finds in its destination
Delivered == ValueOf(call.out, call.size * BITS_IN_BYTE)

\* C9 as stated: the 5 bit read yields 10 and the following 1 bit read yields 0.
ExampleYieldsTenThenZero ==
    /\ AfterFiveBitRead => Delivered = 10
    /\ AfterOneBitRead => Delivered = 0

\* C9 amended: the 5 bit read yields 10 and the following 1 bit read yields
\* 1, bit 5 of 0xAA.
ExampleYieldsTenThenOne ==
    /\ AfterFiveBitRead => Delivered = 10
    /\ AfterOneBitRead => Delivered = 1

\* C10: a queue made by bit_queue_init starts with written_bits =
\* byte_count*8 and both cursors at (0,0), and as long as nothing is written
\* every successful read delivers the next bits of the buffer in logical
\* order (bit b of byte i is logical bit i*8+b).
WrappedBufferReadable ==
    /\ []((bq = "live" /\ call.op = "init")
            => written_bits = Cap /\ WPos = 0 /\ RPos = 0)
    /\ [][(origin = "init" /\ ~wrote /\ ReadCall /\ call'.ret = call'.bit_count)
            => BitsOf(call'.out, 0, call'.bit_count)
                  = BitsOf(buffer, Cap - written_bits, call'.bit_count)]_vars

\* C11: a bit_queue_destroy call on a handle that an earlier bit_queue_destroy
\* has released fails with EINVAL, reads no released storage and calls free
\* neither on the struct nor on the buffer.
DoubleDestroySafe ==
    [][(bq = "freed" /\ call'.op = "destroy")
        => /\ call'.ret = -1
           /\ call'.err = EINVAL
           /\ ~stale'
           /\ UNCHANGED <<freed_struct, freed_buffer>>]_vars

\* C12: a queue made by bit_queue_base_init owns its buffer, one made by
\* bit_queue_init owns it if free_buff was true; free_buff and buffer_size
\* stay as constructed while the queue lives; a successful bit_queue_destroy
\* of a live queue releases the struct once and the buffer once if the queue
\* owns it and not at all if it is borrowed.
OwnershipControlsRelease ==
    /\ []((bq = "live" /\ call.op = "base_init") => free_buff)
    /\ []((bq = "live" /\ call.op = "init") => free_buff = call.free)
    /\ [][(bq = "live" /\ bq' = "live") => UNCHANGED <<free_buff, buffer_size>>]_vars
    /\ [][(bq = "live" /\ call'.op = "destroy" /\ call'.ret = 0)
            => /\ freed_struct' = freed_struct + 1
               /\ freed_buffer' = freed_buffer + (IF free_buff THEN 1 ELSE 0)]_vars

\* a queue over a borrowed buffer was used and destroyed; the buffer was kept
BorrowedBufferKept ==
    /\ bq = "freed"
    /\ origin = "init"
    /\ ~free_buff
    /\ calls > 0
    /\ destroys = 1
    /\ freed_struct = 1
    /\ freed_buffer = 0

\* the reference result of a copy of n bits from logical bit ss of src to
\* logical bit ds of dst: bit k of the result
ReferenceBit(dst, src, ds, ss, n, k) ==
    IF k >= ds /\ k < ds + n /\ BitAt(src, ss + (k - ds)) = 1 THEN 1 ELSE BitAt(dst, k)

\* the reference result, byte by byte
Reference(dst, src, ds, ss, n) ==
    [i \in DOMAIN dst |->
        ReferenceBit(dst, src, ds, ss, n, i * BITS_IN_BYTE)
        + 2 * ReferenceBit(dst, src, ds, ss, n, i * BITS_IN_BYTE + 1)
        + 4 * ReferenceBit(dst, src, ds, ss, n, i * BITS_IN_BYTE + 2)
        + 8 * ReferenceBit(dst, src, ds, ss, n, i * BITS_IN_BYTE + 3)
        + 16 * ReferenceBit(dst, src, ds, ss, n, i * BITS_IN_BYTE + 4)
        + 32 * ReferenceBit(dst, src, ds, ss, n, i * BITS_IN_BYTE + 5)
        + 64 * ReferenceBit(dst, src, ds, ss, n, i * BITS_IN_BYTE + 6)
        + 128 * ReferenceBit(dst, src, ds, ss, n, i * BITS_IN_BYTE + 7)]

\* the logical bit positions at which a direct call starts
DstStart == copy.a.dst_byte_offset * BITS_IN_BYTE + copy.a.dst_bit_offset
SrcStart == copy.a.src_byte_offset * BITS_IN_BYTE + copy.a.src_bit_offset

\* a direct call was made with both starts inside their buffers and copied bits
CopiedInside ==
    /\ copy.done
    /\ copy.a.dst # NULL
    /\ copy.a.src # NULL
    /\ copy.a.dst_byte_offset < copy.a.dst_buff_size
    /\ copy.a.src_byte_offset < copy.a.src_buff_size
    /\ copy.a.bit_count \in 1..MaxBits
    /\ copy.res.ret # -1

\* C13: for every pair of start bit offsets and every bit_count in 1..16, a
\* call that starts inside both buffers and is not rejected leaves in the
\* destination, for each k < copied, bit dst_start+k = old bit OR source bit
\* src_start+k, and every other destination bit as it was; it touches no
\* byte outside either buffer.
CopyMatchesReference ==
    CopiedInside
        => /\ copy.res.ret >= 1
           /\ copy.res.dst = Reference(copy.a.dst, copy.a.src, DstStart, SrcStart,
                                       copy.res.ret)
           /\ ~copy.res.oob_read
           /\ ~copy.res.oob_write

\* MaxBits bits were copied between different, non-zero bit offsets into a
\* destination that held bits already
UnalignedCopyDone ==
    /\ CopiedInside
    /\ copy.a.dst_bit_offset = 5
    /\ copy.a.src_bit_offset = 3
    /\ copy.a.bit_count = MaxBits
    /\ copy.res.ret = MaxBits
    /\ copy.a.dst # ZeroBuffer(CopyBytes)
    /\ copy.res.dst # copy.a.dst

\* a direct call was made whose arguments pass the checks of lines 314-323
PassedArgumentChecks ==
    /\ copy.done
    /\ copy.a.dst # NULL
    /\ copy.a.src # NULL
    /\ copy.a.bit_count >= 1
    /\ copy.a.dst_byte_offset <= copy.a.dst_buff_size
    /\ copy.a.src_byte_offset <= copy.a.src_buff_size
    /\ copy.a.dst_bit_offset < BITS_IN_BYTE
    /\ copy.a.src_bit_offset < BITS_IN_BYTE
    /\ copy.a.bit_count <= copy.a.src_buff_size * BITS_IN_BYTE

\* the bits that remain in the destination and in the source from the start
\* of a direct call, as integers
DstRemaining == copy.a.dst_buff_size * BITS_IN_BYTE - DstStart
SrcRemaining == copy.a.src_buff_size * BITS_IN_BYTE - SrcStart

\* C19: a call that passes the argument checks and asks for more bits than
\* remain in the destination from its start, the start at the end of the
\* destination with a bit offset of 1..7 included, fails with EMSGSIZE and
\* writes no byte inside or outside the destination.
SmallDestinationRefused ==
    (PassedArgumentChecks /\ DstRemaining < copy.a.bit_count)
        => /\ copy.res.ret = -1
           /\ copy.res.err = EMSGSIZE
           /\ copy.res.dst = copy.a.dst
           /\ ~copy.res.oob_write

\* C20: a call that is not rejected returns min(bit_count, bits remaining in
\* the source from its start) and reads no source byte at an index >=
\* src_buff_size.
SourceClipped ==
    (PassedArgumentChecks /\ copy.res.ret # -1)
        => /\ copy.res.ret = (IF copy.a.bit_count < SrcRemaining
                              THEN copy.a.bit_count ELSE SrcRemaining)
           /\ ~copy.res.oob_read

\* C14: after a successful write the bit_count ring bits from the old write
\* cursor on equal the source bits, whatever the ring held there before.
WriteOverwritesRing ==
    [][(WriteCall /\ call'.ret = call'.bit_count)
        => \A k \in 0..(call'.bit_count - 1) :
              BitAt(buffer', (WPos + k) % Cap)
                 = pending'[Len(pending') - call'.bit_count + k + 1]]_vars

\* C15: a read with enough data whose bits span the end of the buffer
\* succeeds in one call of two passes: the run up to the end, the wrap of the
\* read cursor to (0,0), the rest from byte 0; the destination holds the ring
\* bits from the old read cursor on in order, the call returns bit_count and
\* written_bits drops by bit_count.
ReadSpansRingEnd ==
    [][(ReadCall /\ written_bits >= call'.bit_count /\ RPos + call'.bit_count > Cap)
        => /\ call'.ret = call'.bit_count
           /\ call'.iters = 2
           /\ call'.wrap_bit = 0
           /\ written_bits' = written_bits - call'.bit_count
           /\ BitsOf(call'.out, 0, call'.bit_count)
                 = [k \in 1..call'.bit_count |-> BitAt(buffer, (RPos + k - 1) % Cap)]]_vars

\* C16: every successful write_bits / read_bits call advances the linear
\* position of its cursor by bit_count modulo buffer_size*8 and changes
\* written_bits by bit_count.
CursorAdvanceExact ==
    [][/\ (WriteCall /\ call'.ret = call'.bit_count)
            => /\ WPos' = (WPos + call'.bit_count) % Cap
               /\ written_bits' = written_bits + call'.bit_count
       /\ (ReadCall /\ call'.ret = call'.bit_count)
            => /\ RPos' = (RPos + call'.bit_count) % Cap
               /\ written_bits' = written_bits - call'.bit_count]_vars

\* C17: a write_bits or read_bits call that returns -1, whatever the error,
\* leaves the queue as it was, a failure of the transfer primitive coming
\* from the first pass of the loop; a call that does not return -1 returns
\* bit_count and has moved exactly bit_count bits.
FailedCallsApplyNothing ==
    [][call'.op \in {"read", "write"}
        => IF call'.ret = -1
           THEN UNCHANGED <<bq, fields>> /\ call'.iters <= 1
           ELSE /\ call'.ret = call'.bit_count
                /\ written_bits' = (IF call'.op = "write"
                                    THEN written_bits + call'.bit_count
                                    ELSE written_bits - call'.bit_count)]_vars

\* a write that had free space failed inside the transfer primitive, on a
\* queue that holds data
PrimitiveFailurePropagated ==
    /\ bq = "live"
    /\ call.op = "write"
    /\ call.ret = -1
    /\ call.err = EMSGSIZE
    /\ call.iters = 1
    /\ call.bit_count <= Cap - written_bits
    /\ written_bits > 0

\* C18: no call of the transfer primitive made by the loops of write_bits
\* and read_bits reports 0 bits, no pass of the primitive's loop moves 0
\* bits, and a loop makes at most bit_count passes.
EveryCallTerminates ==
    call.op \in {"read", "write"}
        => /\ ~call.hang
           /\ call.iters <= call.bit_count

\* a read has succeeded in two passes of its loop
ReadTookTwoPasses ==
    /\ bq = "live"
    /\ call.op = "read"
    /\ call.ret = call.bit_count
    /\ call.iters = 2

====
